---- MODULE Spec2Model ----
(***************************************************************************)
(* Resumable chunked upload of a recorded media stream.                    *)
(*                                                                         *)
(* The repository holds several variants of ApiVideoMediaRecorder.  The   *)
(* variable `path` says which one is running:                              *)
(*   "blob"   src/src/index.ts 307-708    list of Blobs + upload queue     *)
(*   "u8"     src/unnamed/part_002 34-370 Uint8Array buffer + upload queue *)
(*   "ring"   src/src/upload-worker.js 158-702 ring buffer + upload queue  *)
(*   "worker" src/unnamed/part_002 407-699 + src/src/upload-worker.js 1-119*)
(* The three queue-based variants share processUploadQueue / uploadChunk.  *)
(*                                                                         *)
(* A byte of the recorded stream is identified by its offset in the stream *)
(* (0, 1, 2, ...); a Blob or Uint8Array is the sequence of its bytes.      *)
(***************************************************************************)
EXTENDS Integers, Sequences, FiniteSets, TLC

\* ---------------------------------------------------------------- bounds
\* options.targetChunkSize (scaled down from 4 MB)
TARGET_CHUNK_SIZE == 2
\* largest fragment a dataavailable event carries
MaxFragment == 3
\* longest recorded stream
MaxBytes == 4
\* largest upper bound the server reports in a Range header
MaxRange == 4
\* how many times the body of a 2xx response fails to be read or parsed
MaxBodyFailures == 1
\* MIN_CHUNK_SIZE of the Uint8Array and ring-buffer variants (scaled down from 4 MB)
MIN_CHUNK_SIZE == 2
\* INITIAL_BUFFER_CAPACITY of the ring buffer (scaled down from 20 MB)
INITIAL_BUFFER_CAPACITY == 3
\* CHUNK_ALIGNMENT of the worker (scaled down from 4 MB)
CHUNK_ALIGNMENT == 2

\* a second recorder instance stops posting once it has posted this many bytes
MaxOther == 1
\* CHUNK_SIZE of the polling recorder
CHUNK_SIZE == 2

\* ------------------------------------------------------ program constants
maxRetries == 10
backoffFactor == 500

\* the literal "*" of a Content-Range total
Star == -1

\* ---------------------------------------------------------------- state
VARIABLES
    path,               \* which variant of the recorder runs
    url,                \* testlifyStorageSignedUrl: "set" or "undefined"
    targetChunkSize,    \* options.targetChunkSize
    recState,           \* MediaRecorder: where it is between start() and the end of onstop
    isRecording,
    previousPart,       \* TRUE when this.previousPart holds a Blob
    promise,            \* the promise returned by stop()
    pendingReads,       \* onDataAvailable calls suspended at `await ev.data.arrayBuffer()`
    blobBuffer,         \* Blob[]                       (blob)
    blobBufferSize,     \*                              (blob)
    buffer,             \* Uint8Array                   (u8)
    allocatedBuffer,    \* Uint8Array                   (ring)
    readIndex,          \*                              (ring)
    writeIndex,         \*                              (ring)
    uploadQueue,        \* { chunk, isFinal }[]
    isProcessingQueue,
    startByte,
    pc,                 \* where the drain loop is suspended: idle, fetch, json, backoff
    attempts,           \* uploadChunk's local `attempts`
    timer,              \* the delay of uploadChunk's last backoff setTimeout, in ms
    cur,                \* uploadChunk's locals start, end, totalSize, chunk, isFinal
    lastError,          \* the error caught by uploadChunk's catch block
    errors,             \* the data of every dispatched "error" event, in order
    puts,               \* every PUT request issued, in order; resent = sent again by a retry
    ingested,           \* number of bytes delivered by dataavailable events so far
    chunks,             \* every { chunk, isFinal } ever pushed to uploadQueue, in order
    bodyFailures,       \* number of 2xx responses whose body could not be read so far
    allOk,              \* TRUE while every PUT that completed was answered 2xx and read
    finalChunkSent,     \*                              (worker, main thread)
    msgs,               \* messages posted to the worker, not yet handled
    instanceBuffers,    \* the worker's instanceBuffers
    otherPosted,        \* bytes a second recorder instance has posted to the worker
    fetches,            \* the worker's uploadChunk calls that have not returned
    outbox,             \* messages posted by the worker, in order
    totalSize,          \* handleUploads' local totalSize          (poll)
    lastSuccessfulUpload, \* TRUE when handleUploads holds a response (poll)
    previousData,       \* the Blob held by this.previousPart, if any (stream)
    parts,              \* every call made to the progressive uploader, in order (stream)
    fragments           \* every Blob delivered by a dataavailable event, in order (stream)

recorderVars == << recState, isRecording, previousPart, promise >>
bufferVars == << pendingReads, blobBuffer, blobBufferSize, buffer,
                 allocatedBuffer, readIndex, writeIndex >>
uploaderVars == << uploadQueue, isProcessingQueue, startByte, pc, attempts, timer, cur,
                   lastError, errors, puts >>
workerVars == << finalChunkSent, msgs, instanceBuffers, otherPosted, fetches, outbox >>
configVars == << path, url, targetChunkSize >>
pollVars == << totalSize, lastSuccessfulUpload >>
streamVars == << previousData, parts, fragments >>

vars == << path, url, targetChunkSize, recState, isRecording, previousPart, promise, pendingReads,
           blobBuffer, blobBufferSize, buffer, allocatedBuffer, readIndex, writeIndex,
           uploadQueue, isProcessingQueue, startByte, pc, attempts, timer, cur, lastError,
           errors, puts, ingested, chunks, allOk, bodyFailures, finalChunkSent, msgs,
           instanceBuffers, otherPosted, fetches, outbox, totalSize, lastSuccessfulUpload,
           previousData, parts, fragments >>

\* ---------------------------------------------------------------- helpers
Max(a, b) == IF a >= b THEN a ELSE b
Min(a, b) == IF a <= b THEN a ELSE b

\* the stream bytes [lo, hi) as a blob
Bytes(lo, hi) == [i \in 1..(hi - lo) |-> lo + i - 1]

\* Blob.slice(from) that starts one byte too far
SliceFromSkips(b, from) == SubSeq(b, from + 2, Len(b))

\* Blob.slice(0, to) that stops one byte early
SliceToShort(b, to) == SubSeq(b, 1, to - 1)

\* Blob.slice(from) and Blob.slice(0, to)
SliceFrom(b, from) == SubSeq(b, from + 1, Len(b))
SliceTo(b, to) == SubSeq(b, 1, to)

RECURSIVE SumSizes(_)
SumSizes(blobs) ==
    IF blobs = << >> THEN 0 ELSE Len(Head(blobs)) + SumSizes(Tail(blobs))

RECURSIVE Concat(_)
Concat(blobs) ==
    IF blobs = << >> THEN << >> ELSE Head(blobs) \o Concat(Tail(blobs))

NoPut == [start |-> 0, end |-> 0, total |-> Star, chunk |-> << >>, isFinal |-> FALSE]

\* ------------------------------------------------- blob path: extractChunk
RECURSIVE ExtractLoop(_, _, _)
ExtractLoop(buf, collected, chunkSize) ==
    IF Len(collected) < chunkSize /\ Len(buf) > 0
    THEN LET currentBlob == Head(buf) IN
         IF Len(collected) + Len(currentBlob) <= chunkSize
         THEN ExtractLoop(Tail(buf), collected \o currentBlob, chunkSize)
         ELSE LET needed == chunkSize - Len(collected) IN
              ExtractLoop(<< SliceFrom(currentBlob, needed) >> \o Tail(buf),
                          collected \o SliceTo(currentBlob, needed), chunkSize)
    ELSE [chunk |-> collected, blobBuffer |-> buf]

extractChunk(buf, size, chunkSize) ==
    LET r == ExtractLoop(buf, << >>, chunkSize) IN
    [chunk |-> r.chunk, blobBuffer |-> r.blobBuffer, blobBufferSize |-> size - chunkSize]

\* onDataAvailable with an if in place of its while
ExtractOnce(buf, size, pushed) ==
    IF size >= targetChunkSize
    THEN LET r == extractChunk(buf, size, targetChunkSize) IN
         [blobBuffer |-> r.blobBuffer, blobBufferSize |-> r.blobBufferSize,
          pushed |-> Append(pushed, [chunk |-> r.chunk, isFinal |-> FALSE])]
    ELSE [blobBuffer |-> buf, blobBufferSize |-> size, pushed |-> pushed]

\* onDataAvailable extracting as soon as anything is buffered
ExtractEager(buf, size, pushed) ==
    IF size > 0
    THEN LET r == extractChunk(buf, size, targetChunkSize) IN
         [blobBuffer |-> r.blobBuffer, blobBufferSize |-> r.blobBufferSize,
          pushed |-> Append(pushed, [chunk |-> r.chunk, isFinal |-> FALSE])]
    ELSE [blobBuffer |-> buf, blobBufferSize |-> size, pushed |-> pushed]

\* onDataAvailable's loop: while (blobBufferSize >= TARGET_CHUNK_SIZE) extract and push
RECURSIVE ExtractAligned(_, _, _)
ExtractAligned(buf, size, pushed) ==
    IF size >= targetChunkSize
    THEN LET r == extractChunk(buf, size, targetChunkSize) IN
         ExtractAligned(r.blobBuffer, r.blobBufferSize,
                        Append(pushed, [chunk |-> r.chunk, isFinal |-> FALSE]))
    ELSE [blobBuffer |-> buf, blobBufferSize |-> size, pushed |-> pushed]

\* ------------------------------------- processUploadQueue and uploadChunk
\* a catch block that also shifts the failed chunk
DrainFailsShifts(q, sb, err) ==
    /\ uploadQueue' = Tail(q)
    /\ startByte' = sb
    /\ isProcessingQueue' = FALSE
    /\ errors' = Append(errors, err)
    /\ pc' = "idle"
    /\ attempts' = 0
    /\ timer' = 0
    /\ cur' = NoPut
    /\ lastError' = "none"
    /\ puts' = puts

\* The catch block of processUploadQueue: the drain stops, the chunk stays queued.
DrainFails(q, sb, err) ==
    /\ uploadQueue' = q
    /\ startByte' = sb
    /\ isProcessingQueue' = FALSE
    /\ errors' = Append(errors, err)
    /\ pc' = "idle"
    /\ attempts' = 0
    /\ timer' = 0
    /\ cur' = NoPut
    /\ lastError' = "none"
    /\ puts' = puts

\* uploadChunk taking the final total from the chunk's own length
HeadersChunkTotal(item, sb) ==
    [start |-> sb,
     end |-> Max(0, sb + Len(item.chunk) - 1),
     total |-> IF item.isFinal THEN Len(item.chunk) ELSE Star,
     chunk |-> item.chunk,
     isFinal |-> item.isFinal]

\* uploadChunk up to its first fetch
Headers(item, sb) ==
    [start |-> sb,
     end |-> Max(0, sb + Len(item.chunk) - 1),
     total |-> IF item.isFinal THEN sb + Len(item.chunk) ELSE Star,
     chunk |-> item.chunk,
     isFinal |-> item.isFinal]

\* a PUT as it is logged
Request(h) ==
    [start |-> h.start, end |-> h.end, total |-> h.total, chunk |-> h.chunk,
     isFinal |-> h.isFinal, resent |-> FALSE]

\* The head of processUploadQueue's while loop, with queue q and startByte sb.
LoopHead(q, sb) ==
    IF q = << >>
    THEN /\ uploadQueue' = q
         /\ startByte' = sb
         /\ isProcessingQueue' = FALSE
         /\ pc' = "idle"
         /\ attempts' = 0
         /\ timer' = 0
         /\ cur' = NoPut
         /\ lastError' = "none"
         /\ UNCHANGED << errors, puts >>
    ELSE IF url = "undefined"
    THEN DrainFails(q, sb, [kind |-> "nourl", cause |-> "none"])
    ELSE /\ uploadQueue' = q
         /\ startByte' = sb
         /\ isProcessingQueue' = TRUE
         /\ pc' = "fetch"
         /\ attempts' = 0
         /\ timer' = 0
         /\ cur' = Headers(Head(q), sb)
         /\ lastError' = "none"
         /\ puts' = Append(puts, Request(Headers(Head(q), sb)))
         /\ UNCHANGED errors

\* processUploadQueue forgetting the chunks pushed while a drain is running
processUploadQueueBusy(q) ==
    IF isProcessingQueue
    THEN UNCHANGED << uploadQueue, startByte, isProcessingQueue, pc, attempts, timer, cur,
                      lastError, errors, puts >>
    ELSE LoopHead(q, startByte)

\* processUploadQueue without the isProcessingQueue test
processUploadQueueUnguarded(q) == LoopHead(q, startByte)

processUploadQueue(q) ==
    IF isProcessingQueue
    THEN /\ uploadQueue' = q
         /\ UNCHANGED << startByte, isProcessingQueue, pc, attempts, timer, cur,
                         lastError, errors, puts >>
    ELSE LoopHead(q, startByte)

\* a drain loop that returns after one chunk without looking at the queue
ChunkDoneStops(sb) ==
    /\ uploadQueue' = Tail(uploadQueue)
    /\ startByte' = sb
    /\ isProcessingQueue' = FALSE
    /\ pc' = "idle"
    /\ attempts' = 0
    /\ timer' = 0
    /\ cur' = NoPut
    /\ lastError' = "none"
    /\ UNCHANGED << errors, puts >>

\* uploadChunk returned: the chunk is shifted and the loop goes on
ChunkDone(sb) == LoopHead(Tail(uploadQueue), sb)

\* a backoff that grows by backoffFactor per failed attempt
BackoffLinear(k) == backoffFactor * k

\* backoffFactor * Math.pow(2, attempts - 1)
Backoff(k) == backoffFactor * 2 ^ (k - 1)

\* a catch block that gives up one failure early
CaughtEarly(sb, err) ==
    IF attempts + 1 >= maxRetries
    THEN DrainFails(uploadQueue, sb, [kind |-> "retries", cause |-> err])
    ELSE /\ attempts' = attempts + 1
         /\ timer' = Backoff(attempts + 1)
         /\ lastError' = err
         /\ pc' = "backoff"
         /\ startByte' = sb
         /\ UNCHANGED << uploadQueue, isProcessingQueue, cur, errors, puts >>

\* uploadChunk's catch block
Caught(sb, err) ==
    IF attempts + 1 > maxRetries
    THEN DrainFails(uploadQueue, sb, [kind |-> "retries", cause |-> err])
    ELSE /\ attempts' = attempts + 1
         /\ timer' = Backoff(attempts + 1)
         /\ lastError' = err
         /\ pc' = "backoff"
         /\ startByte' = sb
         /\ UNCHANGED << uploadQueue, isProcessingQueue, cur, errors, puts >>

\* "Range: bytes=0-<n>" as the parts that split("-") yields
RangeHeader(n) == << "bytes=0", n >>
\* a parse that yields the number of bytes instead of the last byte's offset
ParseRangeOffByOne(h) == h[2] - 1
\* parseInt(rangeHeader.split("-")[1], 10)
ParseRange(h) == h[2]

\* the value of a byte of a freshly allocated Uint8Array
Zero == -1
Zeros(n) == [i \in 1..n |-> Zero]

\* ------------------------------------- u8 path: onDataAvailable's loop
RECURSIVE SliceAligned(_, _)
SliceAligned(buf, pushed) ==
    IF Len(buf) >= MIN_CHUNK_SIZE
    THEN LET maxChunkSize == 2 * MIN_CHUNK_SIZE
             availableChunkSize == Min(maxChunkSize, Len(buf) - (Len(buf) % MIN_CHUNK_SIZE))
         IN  IF availableChunkSize = 0
             THEN [buffer |-> buf, pushed |-> pushed]
             ELSE SliceAligned(SliceFrom(buf, availableChunkSize),
                               Append(pushed, [chunk |-> SliceTo(buf, availableChunkSize),
                                               isFinal |-> FALSE]))
    ELSE [buffer |-> buf, pushed |-> pushed]

\* ------------------------------------------------ ring path: ring buffer
UsedSize(r, w, capacity) == IF w >= r THEN w - r ELSE capacity - r + w

\* TypedArray.set(src, offset)
SetAt(buf, src, offset) ==
    [i \in 1..Len(buf) |->
        IF i > offset /\ i <= offset + Len(src) THEN src[i - offset] ELSE buf[i]]

\* TypedArray.subarray(from, to), clamped to the array
Subarray(buf, from, to) == SubSeq(buf, from + 1, Min(to, Len(buf)))

\* a growth step that allocates the same capacity again
GrowSame(buf, r, w) ==
    LET capacity == Len(buf)
        usedSize == UsedSize(r, w, capacity)
        newBuffer == Zeros(capacity)
        copied == IF w >= r
                  THEN SetAt(newBuffer, Subarray(buf, r, w), 0)
                  ELSE SetAt(SetAt(newBuffer, Subarray(buf, r, capacity), 0),
                             Subarray(buf, 0, w), capacity - r)
    IN  [allocatedBuffer |-> copied, readIndex |-> 0, writeIndex |-> usedSize]

\* the doubling step: the live bytes are copied to the front of a buffer twice as large
Grow(buf, r, w) ==
    LET capacity == Len(buf)
        usedSize == UsedSize(r, w, capacity)
        newBuffer == Zeros(2 * capacity)
        copied == IF w >= r
                  THEN SetAt(newBuffer, Subarray(buf, r, w), 0)
                  ELSE SetAt(SetAt(newBuffer, Subarray(buf, r, capacity), 0),
                             Subarray(buf, 0, w), capacity - r)
    IN  [allocatedBuffer |-> copied, readIndex |-> 0, writeIndex |-> usedSize]

\* the append step; threw = TRUE when the second set() raises a RangeError
AppendRing(buf, r, w, newData) ==
    LET capacity == Len(buf)
        n == Len(newData)
    IN  IF w + n <= capacity
        THEN [allocatedBuffer |-> SetAt(buf, newData, w), readIndex |-> r,
              writeIndex |-> (w + n) % capacity, threw |-> FALSE]
        ELSE LET firstPartLength == capacity - w
                 secondPartLength == n - firstPartLength
                 first == SetAt(buf, SliceTo(newData, firstPartLength), w)
             IN  IF secondPartLength > capacity
                 THEN [allocatedBuffer |-> first, readIndex |-> r, writeIndex |-> w,
                       threw |-> TRUE]
                 ELSE [allocatedBuffer |-> SetAt(first, SliceFrom(newData, firstPartLength), 0),
                       readIndex |-> r, writeIndex |-> secondPartLength, threw |-> FALSE]

\* onDataAvailable from the free-space test to the end of the append
GrowAndAppend(buf, r, w, newData) ==
    LET freeSpace == Len(buf) - UsedSize(r, w, Len(buf))
        g == IF Len(newData) > freeSpace
             THEN Grow(buf, r, w)
             ELSE [allocatedBuffer |-> buf, readIndex |-> r, writeIndex |-> w]
    IN  AppendRing(g.allocatedBuffer, g.readIndex, g.writeIndex, newData)

\* chunkSize bytes read at readIndex, contiguous or wrapped
ReadRing(buf, r, chunkSize) ==
    LET capacity == Len(buf) IN
    IF r + chunkSize <= capacity
    THEN Subarray(buf, r, r + chunkSize)
    ELSE LET firstPartLength == capacity - r
             secondPartLength == chunkSize - firstPartLength
         IN  SetAt(SetAt(Zeros(chunkSize), Subarray(buf, r, capacity), 0),
                   Subarray(buf, 0, secondPartLength), firstPartLength)

\* onDataAvailable's loop: while (usedSize >= MIN_CHUNK_SIZE) copy a chunk out and push it
RECURSIVE RingAligned(_, _, _, _)
RingAligned(buf, r, usedSize, pushed) ==
    IF usedSize >= MIN_CHUNK_SIZE
    THEN LET fullChunkSize == usedSize - (usedSize % MIN_CHUNK_SIZE)
             maxChunkSize == 2 * MIN_CHUNK_SIZE
             chunkSize == Min(maxChunkSize, fullChunkSize)
         IN  RingAligned(buf, (r + chunkSize) % Len(buf), usedSize - chunkSize,
                         Append(pushed, [chunk |-> ReadRing(buf, r, chunkSize),
                                         isFinal |-> FALSE]))
    ELSE [readIndex |-> r, pushed |-> pushed]

\* ------------------------------------------------------------------ Init
\* the recorder's instanceId
InstanceId == "recorder"

\* the values of options.targetChunkSize a recorder is constructed with
TargetChunkSizes(p) ==
    IF p = "worker" THEN {TARGET_CHUNK_SIZE, TARGET_CHUNK_SIZE + 1} ELSE {TARGET_CHUNK_SIZE}

InitFor(paths) ==
    /\ path \in paths
    /\ url \in {"set", "undefined"}
    /\ targetChunkSize \in TargetChunkSizes(path)
    /\ recState = "new"
    /\ isRecording = FALSE
    /\ previousPart = FALSE
    /\ promise = "none"
    /\ pendingReads = << >>
    /\ blobBuffer = << >>
    /\ blobBufferSize = 0
    /\ buffer = << >>
    /\ allocatedBuffer = IF path = "ring" THEN Zeros(INITIAL_BUFFER_CAPACITY) ELSE << >>
    /\ readIndex = 0
    /\ writeIndex = 0
    /\ uploadQueue = << >>
    /\ isProcessingQueue = FALSE
    /\ startByte = 0
    /\ pc = "idle"
    /\ attempts = 0
    /\ timer = 0
    /\ cur = NoPut
    /\ lastError = "none"
    /\ errors = << >>
    /\ puts = << >>
    /\ ingested = 0
    /\ chunks = << >>
    /\ allOk = TRUE
    /\ bodyFailures = 0
    /\ finalChunkSent = FALSE
    /\ msgs = IF path = "worker"
              THEN << [type |-> "initialize", instanceId |-> InstanceId,
                       targetChunkSize |-> targetChunkSize] >>
              ELSE << >>
    /\ instanceBuffers = << >>
    /\ otherPosted = 0
    /\ fetches = << >>
    /\ outbox = << >>
    /\ totalSize = Star
    /\ lastSuccessfulUpload = FALSE
    /\ previousData = << >>
    /\ parts = << >>
    /\ fragments = << >>

\* ------------------------------------------------------ recorder: events
Queued == path \in {"blob", "u8", "ring"}

start ==
    /\ recState = "new"
    /\ recState' = "recording"
    /\ isRecording' = TRUE
    /\ UNCHANGED << previousPart, promise, configVars, pollVars, streamVars, bufferVars, uploaderVars,
                    workerVars, ingested, chunks, allOk, bodyFailures >>

\* stop() on a recording recorder; MediaRecorder.stop() makes the state inactive and
\* queues the last dataavailable event and the stop event
stop ==
    /\ recState = "recording"
    /\ recState' = "stopping"
    /\ promise' = "pending"
    /\ isRecording' = IF path \in {"u8", "poll"} THEN FALSE ELSE isRecording
    /\ UNCHANGED << previousPart, configVars, pollVars, streamVars, bufferVars, uploaderVars, workerVars,
                    ingested, chunks, allOk, bodyFailures >>

\* A dataavailable event carries n bytes; the last one (after stop()) may be empty.
Fragment(n) ==
    /\ recState \in {"recording", "stopping"}
    /\ n \in 0..MaxFragment
    /\ ingested + otherPosted + n <= MaxBytes
    /\ recState = "recording" => n > 0

\* ring path: a fragment may be one byte larger than the initial capacity
RingFragment(n) ==
    /\ recState \in {"recording", "stopping"}
    /\ n \in 0..(INITIAL_BUFFER_CAPACITY + 1)
    /\ ingested + otherPosted + n <= MaxBytes
    /\ recState = "recording" => n > 0

AfterData == IF recState = "stopping" THEN "stopfired" ELSE recState

\* onDataAvailable, blob path
BlobData(n) ==
    LET r == ExtractAligned(Append(blobBuffer, Bytes(ingested, ingested + n)),
                            blobBufferSize + n, << >>)
    IN  /\ blobBuffer' = r.blobBuffer
        /\ blobBufferSize' = r.blobBufferSize
        /\ chunks' = chunks \o r.pushed
        /\ ingested' = ingested + n
        /\ processUploadQueue(uploadQueue \o r.pushed)

onDataAvailable ==
    /\ path = "blob"
    /\ \E n \in 0..MaxFragment :
        /\ Fragment(n)
        /\ IF n > 0
           THEN BlobData(n)
           ELSE UNCHANGED << blobBuffer, blobBufferSize, chunks, ingested, uploaderVars >>
    /\ recState' = AfterData
    /\ UNCHANGED << isRecording, previousPart, promise, configVars, pollVars, streamVars, pendingReads, buffer,
                    allocatedBuffer, readIndex, writeIndex, workerVars, allOk, bodyFailures >>

\* mediaRecorder.onstop up to its 100 ms wait (blob and ring)
onstopBegin ==
    /\ path \in {"blob", "ring", "stream"}
    /\ recState = "stopfired"
    /\ recState' = "stopwait"
    /\ UNCHANGED << isRecording, previousPart, promise, configVars, pollVars, streamVars, bufferVars,
                    uploaderVars, workerVars, ingested, chunks, allOk, bodyFailures >>

NoData == IF promise = "pending" THEN "rejected" ELSE promise

\* mediaRecorder.onstop after the wait, blob path
onstop ==
    /\ path = "blob"
    /\ recState = "stopwait"
    /\ recState' = "stopped"
    /\ IF blobBufferSize > 0
       THEN LET finalChunk == [chunk |-> Concat(blobBuffer), isFinal |-> TRUE] IN
            /\ chunks' = Append(chunks, finalChunk)
            /\ blobBuffer' = << >>
            /\ blobBufferSize' = 0
            /\ processUploadQueue(Append(uploadQueue, finalChunk))
            /\ UNCHANGED promise
       ELSE /\ promise' = NoData
            /\ UNCHANGED << blobBuffer, blobBufferSize, chunks, uploaderVars >>
    /\ UNCHANGED << isRecording, previousPart, configVars, pollVars, streamVars, pendingReads, buffer,
                    allocatedBuffer, readIndex, writeIndex, workerVars, ingested, allOk, bodyFailures >>

\* --------------------------------------------------------------- u8 path
\* onDataAvailable up to `await ev.data.arrayBuffer()`
onDataAvailable_u8 ==
    /\ path = "u8"
    /\ \E n \in 0..MaxFragment :
        /\ Fragment(n)
        /\ pendingReads' = Append(pendingReads, Bytes(ingested, ingested + n))
        /\ ingested' = ingested + n
    /\ recState' = AfterData
    /\ UNCHANGED << isRecording, previousPart, promise, configVars, pollVars, streamVars, blobBuffer,
                    blobBufferSize, buffer, allocatedBuffer, readIndex, writeIndex,
                    uploaderVars, workerVars, chunks, allOk, bodyFailures >>

\* onDataAvailable once the fragment has been read
onDataRead_u8 ==
    /\ path = "u8"
    /\ pendingReads # << >>
    /\ pendingReads' = Tail(pendingReads)
    /\ LET merged == buffer \o Head(pendingReads)
           r == IF isRecording THEN SliceAligned(merged, << >>)
                ELSE [buffer |-> merged, pushed |-> << >>]
       IN  /\ buffer' = r.buffer
           /\ chunks' = chunks \o r.pushed
           /\ processUploadQueue(uploadQueue \o r.pushed)
    /\ previousPart' = TRUE
    /\ UNCHANGED << recState, isRecording, promise, configVars, pollVars, streamVars, blobBuffer,
                    blobBufferSize, allocatedBuffer, readIndex, writeIndex,
                    workerVars, ingested, allOk, bodyFailures >>

\* mediaRecorder.onstop, u8 path (no wait)
onstop_u8 ==
    /\ path = "u8"
    /\ recState = "stopfired"
    /\ recState' = "stopped"
    /\ isRecording' = FALSE
    /\ IF Len(buffer) > 0
       THEN LET finalChunk == [chunk |-> buffer, isFinal |-> TRUE] IN
            /\ chunks' = Append(chunks, finalChunk)
            /\ buffer' = << >>
            /\ processUploadQueue(Append(uploadQueue, finalChunk))
       ELSE UNCHANGED << buffer, chunks, uploaderVars >>
    /\ promise' = IF previousPart THEN promise ELSE NoData
    /\ UNCHANGED << previousPart, configVars, pollVars, streamVars, pendingReads, blobBuffer, blobBufferSize,
                    allocatedBuffer, readIndex, writeIndex, workerVars, ingested, allOk, bodyFailures >>

\* ------------------------------------------------------------- ring path
\* onDataAvailable up to `await ev.data.arrayBuffer()`
onDataAvailable_ring ==
    /\ path = "ring"
    /\ \E n \in 0..(INITIAL_BUFFER_CAPACITY + 1) :
        /\ RingFragment(n)
        /\ IF n > 0
           THEN pendingReads' = Append(pendingReads, Bytes(ingested, ingested + n))
           ELSE UNCHANGED pendingReads
        /\ ingested' = ingested + n
    /\ recState' = AfterData
    /\ UNCHANGED << isRecording, previousPart, promise, configVars, pollVars, streamVars, blobBuffer, blobBufferSize,
                    buffer, allocatedBuffer, readIndex, writeIndex, uploaderVars,
                    workerVars, chunks, allOk, bodyFailures >>

\* onDataAvailable once the fragment has been read
onDataRead_ring ==
    /\ path = "ring"
    /\ pendingReads # << >>
    /\ pendingReads' = Tail(pendingReads)
    /\ LET newData == Head(pendingReads)
           a == GrowAndAppend(allocatedBuffer, readIndex, writeIndex, newData)
           capacity == Len(a.allocatedBuffer)
           x == RingAligned(a.allocatedBuffer, a.readIndex,
                            UsedSize(a.readIndex, a.writeIndex, capacity), << >>)
       IN  /\ allocatedBuffer' = a.allocatedBuffer
           /\ writeIndex' = a.writeIndex
           /\ IF a.threw
              THEN \* the catch block of onDataAvailable
                   /\ readIndex' = a.readIndex
                   /\ errors' = Append(errors, [kind |-> "range", cause |-> "none"])
                   /\ recState' = IF recState = "recording" THEN "stopping" ELSE recState
                   /\ UNCHANGED << chunks, uploadQueue, isProcessingQueue, startByte, pc,
                                   attempts, timer, cur, lastError, puts >>
              ELSE /\ readIndex' = x.readIndex
                   /\ chunks' = chunks \o x.pushed
                   /\ processUploadQueue(uploadQueue \o x.pushed)
                   /\ UNCHANGED recState
    /\ UNCHANGED << isRecording, previousPart, promise, configVars, pollVars, streamVars, blobBuffer,
                    blobBufferSize, buffer, workerVars, ingested, allOk, bodyFailures >>

\* mediaRecorder.onstop after the wait, ring path
onstop_ring ==
    /\ path = "ring"
    /\ recState = "stopwait"
    /\ recState' = "stopped"
    /\ LET capacity == Len(allocatedBuffer)
           usedSize == UsedSize(readIndex, writeIndex, capacity)
       IN  IF usedSize > 0
           THEN LET finalChunk == [chunk |-> ReadRing(allocatedBuffer, readIndex, usedSize),
                                   isFinal |-> TRUE] IN
                /\ chunks' = Append(chunks, finalChunk)
                /\ readIndex' = writeIndex
                /\ processUploadQueue(Append(uploadQueue, finalChunk))
                /\ UNCHANGED promise
           ELSE /\ promise' = NoData
                /\ UNCHANGED << readIndex, chunks, uploaderVars >>
    /\ UNCHANGED << isRecording, previousPart, configVars, pollVars, streamVars, pendingReads, blobBuffer,
                    blobBufferSize, buffer, allocatedBuffer, writeIndex, workerVars,
                    ingested, allOk, bodyFailures >>

\* ------------------------------------------------- uploadChunk: responses
othersUnchanged ==
    UNCHANGED << recState, isRecording, previousPart, configVars, pollVars, streamVars, bufferVars,
                 workerVars, ingested, chunks >>
noBodyFailure == UNCHANGED bodyFailures

\* a 2xx handler that reports success for any chunk
respOkAnnounces ==
    /\ Queued /\ pc = "fetch"
    /\ UNCHANGED << allOk, bodyFailures >>
    /\ IF cur.isFinal
       THEN /\ startByte' = startByte + Len(cur.chunk)
            /\ pc' = "json"
            /\ UNCHANGED << uploadQueue, isProcessingQueue, attempts, timer, cur,
                            lastError, errors, puts >>
       ELSE ChunkDone(startByte + Len(cur.chunk))
    /\ promise' = IF promise = "pending" THEN "resolved" ELSE promise
    /\ othersUnchanged

\* response.ok
respOk ==
    /\ Queued /\ pc = "fetch"
    /\ UNCHANGED << allOk, bodyFailures >>
    /\ IF cur.isFinal
       THEN /\ startByte' = startByte + Len(cur.chunk)
            /\ pc' = "json"
            /\ UNCHANGED << uploadQueue, isProcessingQueue, attempts, timer, cur,
                            lastError, errors, puts >>
       ELSE ChunkDone(startByte + Len(cur.chunk))
    /\ UNCHANGED promise
    /\ othersUnchanged

\* await response.json() yields the upload response
jsonOk ==
    /\ Queued /\ pc = "json"
    /\ promise' = IF promise = "pending" THEN "resolved" ELSE promise
    /\ ChunkDone(startByte)
    /\ UNCHANGED << allOk, bodyFailures >>
    /\ othersUnchanged

\* await response.json() throws: the body cannot be read or is not JSON
jsonFails ==
    /\ Queued /\ pc = "json"
    /\ bodyFailures < MaxBodyFailures
    /\ bodyFailures' = bodyFailures + 1
    /\ allOk' = FALSE
    /\ Caught(startByte, "body")
    /\ UNCHANGED promise
    /\ othersUnchanged

\* status 308, with a Range header "bytes=0-<n>" or without one
resp308With(hasRange, n) ==
    /\ Queued /\ pc = "fetch"
    /\ allOk' = FALSE
    /\ ChunkDone(IF hasRange THEN ParseRange(RangeHeader(n)) + 1 ELSE startByte)
    /\ UNCHANGED promise
    /\ noBodyFailure
    /\ othersUnchanged

resp308 ==
    \E hasRange \in BOOLEAN, n \in 0..MaxRange :
        /\ ~hasRange => n = 0
        /\ resp308With(hasRange, n)

\* any other status: the thrown Error lands in uploadChunk's own catch block
respRejected ==
    /\ Queued /\ pc = "fetch"
    /\ allOk' = FALSE
    /\ Caught(startByte, "status")
    /\ UNCHANGED promise
    /\ noBodyFailure
    /\ othersUnchanged

\* fetch rejects
fetchFails ==
    /\ Queued /\ pc = "fetch"
    /\ allOk' = FALSE
    /\ Caught(startByte, "transport")
    /\ UNCHANGED promise
    /\ noBodyFailure
    /\ othersUnchanged

\* the backoff timer fires and the while loop fetches again
backoffDone ==
    /\ Queued /\ pc = "backoff"
    /\ pc' = "fetch"
    /\ puts' = [puts EXCEPT ![Len(puts)].resent = TRUE]
    /\ UNCHANGED << uploadQueue, isProcessingQueue, startByte, attempts, timer, cur,
                    lastError, errors, promise, allOk, bodyFailures >>
    /\ othersUnchanged

NextUploader ==
    \/ respOk
    \/ jsonOk
    \/ jsonFails
    \/ resp308
    \/ respRejected
    \/ fetchFails
    \/ backoffDone

NextBlob == start \/ stop \/ onDataAvailable \/ onstopBegin \/ onstop \/ NextUploader
NextU8 == start \/ stop \/ onDataAvailable_u8 \/ onDataRead_u8 \/ onstop_u8 \/ NextUploader
NextRing ==
    \/ start \/ stop \/ onDataAvailable_ring \/ onDataRead_ring \/ onstopBegin
    \/ onstop_ring \/ NextUploader

SpecBlob == InitFor({"blob"}) /\ [][NextBlob]_vars
SpecU8 == InitFor({"u8"}) /\ [][NextU8]_vars
SpecRing == InitFor({"ring"}) /\ [][NextRing]_vars

\* ================================================================ worker

\* ------------------------------------------- upload-worker.js: extractChunk
RECURSIVE WorkerExtractLoop(_, _, _, _)
WorkerExtractLoop(buf, size, collected, chunkSize) ==
    IF Len(collected) < chunkSize /\ Len(buf) > 0
    THEN LET currentBlob == Head(buf)
             remaining == chunkSize - Len(collected)
             takeBytes == Min(Len(currentBlob), remaining)
         IN  IF takeBytes = Len(currentBlob)
             THEN WorkerExtractLoop(Tail(buf), size - takeBytes,
                                    collected \o currentBlob, chunkSize)
             ELSE WorkerExtractLoop(<< SliceFrom(currentBlob, takeBytes) >> \o Tail(buf),
                                    size - takeBytes,
                                    collected \o SliceTo(currentBlob, takeBytes), chunkSize)
    ELSE [chunk |-> collected,
          blobBuffer |-> SelectSeq(buf, LAMBDA b : Len(b) > 0),
          blobBufferSize |-> size]

workerExtractChunk(buf, size, chunkSize) == WorkerExtractLoop(buf, size, << >>, chunkSize)

\* upload-worker.js uploadChunk up to its fetch; sb is the startByte argument and
\* bsb the value of buffer.startByte when the call is made
WorkerHeaders(chunk, isFinal, sb, bsb) ==
    [start |-> sb,
     end |-> sb + Len(chunk) - 1,
     total |-> IF isFinal THEN bsb + Len(chunk) ELSE Star,
     chunk |-> chunk,
     isFinal |-> isFinal]

\* bufferChunk's loop without the rounding down to CHUNK_ALIGNMENT
RECURSIVE WorkerUnaligned(_, _, _, _)
WorkerUnaligned(buf, size, sb, issued) ==
    IF size >= CHUNK_ALIGNMENT
    THEN LET r == workerExtractChunk(buf, size, size)
         IN  IF Len(r.chunk) > 0
             THEN WorkerUnaligned(r.blobBuffer, r.blobBufferSize, sb + Len(r.chunk),
                                  Append(issued, WorkerHeaders(r.chunk, FALSE, sb, sb)))
             ELSE WorkerUnaligned(r.blobBuffer, r.blobBufferSize, sb, issued)
    ELSE [blobBuffer |-> buf, blobBufferSize |-> size, startByte |-> sb, issued |-> issued]

\* bufferChunk's loop: while (!isLast && blobBufferSize >= CHUNK_ALIGNMENT)
RECURSIVE WorkerAligned(_, _, _, _)
WorkerAligned(buf, size, sb, issued) ==
    IF size >= CHUNK_ALIGNMENT
    THEN LET alignedSize == (size \div CHUNK_ALIGNMENT) * CHUNK_ALIGNMENT
             r == workerExtractChunk(buf, size, alignedSize)
         IN  IF Len(r.chunk) > 0
             THEN WorkerAligned(r.blobBuffer, r.blobBufferSize, sb + Len(r.chunk),
                                Append(issued, WorkerHeaders(r.chunk, FALSE, sb, sb)))
             ELSE WorkerAligned(r.blobBuffer, r.blobBufferSize, sb, issued)
    ELSE [blobBuffer |-> buf, blobBufferSize |-> size, startByte |-> sb, issued |-> issued]

\* bufferChunk(instanceId, chunk, isLast) on the instance's buffer b
bufferChunk(b, chunk, isLast) ==
    LET pushed == Append(b.blobBuffer, chunk)
        size == b.blobBufferSize + Len(chunk)
    IN  IF ~isLast
        THEN WorkerAligned(pushed, size, b.startByte, << >>)
        ELSE IF size > 0
        THEN LET r == workerExtractChunk(pushed, size, size) IN
             [blobBuffer |-> << >>, blobBufferSize |-> 0,
              startByte |-> b.startByte + Len(r.chunk),
              issued |-> << WorkerHeaders(r.chunk, TRUE, b.startByte, b.startByte) >>]
        ELSE [blobBuffer |-> pushed, blobBufferSize |-> size, startByte |-> b.startByte,
              issued |-> << >>]

InFlight(h, instanceId) == [req |-> h, phase |-> "fetch", instanceId |-> instanceId]

RemoveAt(s, i) == SubSeq(s, 1, i - 1) \o SubSeq(s, i + 1, Len(s))

\* ------------------------------------------------ worker path: main thread
\* onDataAvailable, worker-offloaded recorder
onDataAvailable_worker ==
    /\ path = "worker"
    /\ \E n \in 0..MaxFragment :
        /\ Fragment(n)
        /\ LET isLast == recState = "stopping" IN
           IF isLast /\ finalChunkSent
           THEN UNCHANGED << msgs, finalChunkSent, ingested >>
           ELSE IF n > 0
           THEN /\ msgs' = Append(msgs, [type |-> "bufferChunk",
                                         instanceId |-> InstanceId,
                                         chunk |-> Bytes(ingested, ingested + n),
                                         isLast |-> isLast])
                /\ finalChunkSent' = (finalChunkSent \/ isLast)
                /\ ingested' = ingested + n
           ELSE UNCHANGED << msgs, finalChunkSent, ingested >>
    /\ recState' = AfterData
    /\ UNCHANGED << isRecording, previousPart, promise, configVars, pollVars, streamVars, bufferVars,
                    uploaderVars, instanceBuffers, otherPosted, fetches, outbox, chunks, allOk,
                    bodyFailures >>

\* mediaRecorder.onstop, worker-offloaded recorder: returns at once
onstop_worker ==
    /\ path = "worker"
    /\ recState = "stopfired"
    /\ recState' = "stopped"
    /\ UNCHANGED << isRecording, previousPart, promise, configVars, pollVars, streamVars, bufferVars,
                    uploaderVars, workerVars, ingested, chunks, allOk, bodyFailures >>

\* handleWorkerMessage
handleWorkerMessage ==
    /\ path = "worker"
    /\ outbox # << >>
    /\ outbox' = Tail(outbox)
    /\ LET m == Head(outbox) IN
       promise' = IF m.type = "uploadSuccess" /\ m.isFinal /\ promise = "pending"
                  THEN "resolved"
                  ELSE promise
    /\ UNCHANGED << recState, isRecording, previousPart, configVars, pollVars, streamVars, bufferVars,
                    uploaderVars, finalChunkSent, msgs, instanceBuffers, otherPosted, fetches,
                    ingested, chunks, allOk, bodyFailures >>

\* ---------------------------------------------------- worker: self.onmessage
workerUnchanged ==
    UNCHANGED << recorderVars, configVars, pollVars, streamVars, bufferVars, uploadQueue, isProcessingQueue,
                 startByte, pc, attempts, timer, cur, lastError, errors, finalChunkSent,
                 ingested, chunks >>

\* what the worker's own steps leave alone
workerThreadUnchanged == workerUnchanged /\ UNCHANGED otherPosted

onmessage ==
    /\ path = "worker"
    /\ msgs # << >>
    /\ msgs' = Tail(msgs)
    /\ LET data == Head(msgs) IN
       IF data.type = "initialize"
       THEN /\ instanceBuffers' =
                  (data.instanceId :> [blobBuffer |-> << >>, blobBufferSize |-> 0,
                                       startByte |-> 0]) @@ instanceBuffers
            /\ UNCHANGED << fetches, puts >>
       ELSE IF data.instanceId \notin DOMAIN instanceBuffers
       THEN UNCHANGED << instanceBuffers, fetches, puts >>
       ELSE LET r == bufferChunk(instanceBuffers[data.instanceId], data.chunk,
                                 data.isLast)
            IN
            /\ instanceBuffers' =
                  [instanceBuffers EXCEPT ![data.instanceId] =
                      [blobBuffer |-> r.blobBuffer, blobBufferSize |-> r.blobBufferSize,
                       startByte |-> r.startByte]]
            /\ fetches' = fetches \o [i \in 1..Len(r.issued) |->
                                         InFlight(r.issued[i], data.instanceId)]
            /\ puts' = IF data.instanceId = InstanceId
                       THEN puts \o [i \in 1..Len(r.issued) |-> Request(r.issued[i])]
                       ELSE puts
    /\ UNCHANGED << outbox, allOk, bodyFailures >>
    /\ workerThreadUnchanged

\* a cursor update that always lands in the recorder's own entry
AdvanceFirst(instanceId, n) ==
    [instanceBuffers EXCEPT ![InstanceId].startByte = n]

Advance(instanceId, n) ==
    [instanceBuffers EXCEPT ![instanceId].startByte = n]

\* response.ok: uploadChunk goes on to await response.json()
workerRespOk ==
    /\ path = "worker"
    /\ \E i \in 1..Len(fetches) :
        /\ fetches[i].phase = "fetch"
        /\ fetches' = [fetches EXCEPT ![i].phase = "json"]
    /\ UNCHANGED << msgs, instanceBuffers, outbox, puts, allOk, bodyFailures >>
    /\ workerThreadUnchanged

\* response.json() yields: uploadSuccess is posted, then buffer.startByte += chunk.size
workerJsonOk ==
    /\ path = "worker"
    /\ \E i \in 1..Len(fetches) :
        /\ fetches[i].phase = "json"
        /\ fetches' = RemoveAt(fetches, i)
        /\ outbox' = Append(outbox, [type |-> "uploadSuccess",
                                     isFinal |-> fetches[i].req.isFinal,
                                     instanceId |-> fetches[i].instanceId])
        /\ instanceBuffers' = Advance(fetches[i].instanceId,
                                      instanceBuffers[fetches[i].instanceId].startByte
                                      + Len(fetches[i].req.chunk))
    /\ UNCHANGED << msgs, puts, allOk, bodyFailures >>
    /\ workerThreadUnchanged

\* response.json() throws: the catch block posts uploadError
workerJsonFails ==
    /\ path = "worker"
    /\ bodyFailures < MaxBodyFailures
    /\ bodyFailures' = bodyFailures + 1
    /\ allOk' = FALSE
    /\ \E i \in 1..Len(fetches) :
        /\ fetches[i].phase = "json"
        /\ fetches' = RemoveAt(fetches, i)
        /\ outbox' = Append(outbox, [type |-> "uploadError", isFinal |-> FALSE,
                                     instanceId |-> fetches[i].instanceId])
    /\ UNCHANGED << msgs, instanceBuffers, puts >>
    /\ workerThreadUnchanged

\* status 308: with a Range header the cursor is set and uploadSuccess posted,
\* without one nothing is posted
workerResp308 ==
    /\ path = "worker"
    /\ allOk' = FALSE
    /\ \E i \in 1..Len(fetches), hasRange \in BOOLEAN, n \in 0..MaxRange :
        /\ ~hasRange => n = 0
        /\ fetches[i].phase = "fetch"
        /\ fetches' = RemoveAt(fetches, i)
        /\ IF hasRange
           THEN /\ instanceBuffers' = Advance(fetches[i].instanceId,
                                              ParseRange(RangeHeader(n)) + 1)
                /\ outbox' = Append(outbox, [type |-> "uploadSuccess",
                                             isFinal |-> fetches[i].req.isFinal,
                                             instanceId |-> fetches[i].instanceId])
           ELSE UNCHANGED << instanceBuffers, outbox >>
    /\ UNCHANGED << msgs, puts, bodyFailures >>
    /\ workerThreadUnchanged

\* any other status, or fetch rejects: uploadError is posted
workerRespFails ==
    /\ path = "worker"
    /\ allOk' = FALSE
    /\ \E i \in 1..Len(fetches) :
        /\ fetches[i].phase = "fetch"
        /\ fetches' = RemoveAt(fetches, i)
        /\ outbox' = Append(outbox, [type |-> "uploadError", isFinal |-> FALSE,
                                     instanceId |-> fetches[i].instanceId])
    /\ UNCHANGED << msgs, instanceBuffers, puts, bodyFailures >>
    /\ workerThreadUnchanged

NextWorker ==
    \/ start \/ stop \/ onDataAvailable_worker \/ onstop_worker \/ handleWorkerMessage
    \/ onmessage \/ workerRespOk \/ workerJsonOk \/ workerJsonFails \/ workerResp308
    \/ workerRespFails

SpecWorker == InitFor({"worker"}) /\ [][NextWorker]_vars

\* ------------------------------------ worker: a second instance in the worker
\* the instanceId of another recorder posting to the same worker
OtherId == "other"

\* the other recorder's constructor: postMessage({ type: "initialize", ... })
otherInitialize ==
    /\ path = "worker"
    /\ OtherId \notin DOMAIN instanceBuffers
    /\ \A i \in 1..Len(msgs) : msgs[i].instanceId # OtherId
    /\ msgs' = Append(msgs, [type |-> "initialize", instanceId |-> OtherId,
                             targetChunkSize |-> targetChunkSize])
    /\ UNCHANGED << instanceBuffers, otherPosted, fetches, outbox, puts, allOk,
                    bodyFailures >>
    /\ workerUnchanged

\* the other recorder's onDataAvailable: postMessage({ type: "bufferChunk", ... })
otherBufferChunk ==
    /\ path = "worker"
    /\ \/ OtherId \in DOMAIN instanceBuffers
       \/ \E i \in 1..Len(msgs) : msgs[i].instanceId = OtherId
    /\ otherPosted < MaxOther
    /\ \E n \in 1..MaxFragment, isLast \in BOOLEAN :
        /\ ingested + otherPosted + n <= MaxBytes
        /\ otherPosted' = otherPosted + n
        /\ msgs' = Append(msgs, [type |-> "bufferChunk", instanceId |-> OtherId,
                                 chunk |-> Bytes(otherPosted, otherPosted + n),
                                 isLast |-> isLast])
    /\ UNCHANGED << instanceBuffers, fetches, outbox, puts, allOk, bodyFailures >>
    /\ workerUnchanged

NextWorkers == NextWorker \/ otherInitialize \/ otherBufferChunk

\* one worker serving two recorder instances
SpecWorkers == InitFor({"worker"}) /\ [][NextWorkers]_vars

\* every buffered variant
\* ---------------------------------------------- polling path: handleUploads
\* uploadChunk(chunk, startByte, endByte, totalSize) up to its fetch
PollHeaders(chunk, sb, total) ==
    [start |-> sb, end |-> sb + Len(chunk) - 1, total |-> total, chunk |-> chunk,
     isFinal |-> total # Star]

\* handleUploads after its while loop; last = lastSuccessfulUpload is set
PollFinish(last, rec) ==
    /\ pc' = "done"
    /\ cur' = NoPut
    /\ isRecording' = IF last THEN FALSE ELSE rec
    /\ promise' = IF promise = "pending"
                  THEN (IF last THEN "resolved" ELSE "rejected")
                  ELSE promise

\* The head of handleUploads' while loop, with this.buffer = buf, this.startByte = sb,
\* lastSuccessfulUpload set or not, and this.isRecording = rec.
PollLoop(buf, sb, last, rec) ==
    /\ buffer' = buf
    /\ startByte' = sb
    /\ lastSuccessfulUpload' = last
    /\ IF rec \/ Len(buf) > 0
       THEN IF Len(buf) >= CHUNK_SIZE \/ (~rec /\ Len(buf) > 0)
            THEN LET chunk == SliceTo(buf, Min(CHUNK_SIZE, Len(buf)))
                     endByte == sb + Len(chunk)
                     total == IF Len(buf) < CHUNK_SIZE /\ ~rec THEN endByte ELSE totalSize
                 IN  /\ totalSize' = total
                     /\ IF url = "undefined"
                        THEN PollFinish(last, rec) /\ puts' = puts
                        ELSE /\ pc' = "fetch"
                             /\ cur' = PollHeaders(chunk, sb, total)
                             /\ puts' = Append(puts, Request(PollHeaders(chunk, sb, total)))
                             /\ isRecording' = rec
                             /\ UNCHANGED promise
            ELSE /\ pc' = "sleep"
                 /\ isRecording' = rec
                 /\ UNCHANGED << totalSize, cur, puts, promise >>
       ELSE PollFinish(last, rec) /\ UNCHANGED << totalSize, puts >>

pollUnused ==
    UNCHANGED << configVars, blobBuffer, blobBufferSize, allocatedBuffer, readIndex,
                 writeIndex, uploadQueue, isProcessingQueue, attempts, timer, lastError,
                 errors, chunks, bodyFailures, workerVars, streamVars >>
pollLoopVars ==
    << buffer, startByte, lastSuccessfulUpload, totalSize, pc, cur, puts >>

\* start(): isRecording = true, handleUploads() runs up to its first await
start_poll ==
    /\ path = "poll"
    /\ recState = "new"
    /\ recState' = "recording"
    /\ PollLoop(buffer, startByte, FALSE, TRUE)
    /\ UNCHANGED << previousPart, pendingReads, ingested, allOk >>
    /\ pollUnused

\* onDataAvailable up to `await ev.data.arrayBuffer()`, or to its end for an empty Blob
onDataAvailable_poll ==
    /\ path = "poll"
    /\ \E n \in 0..MaxFragment :
        /\ Fragment(n)
        /\ IF n > 0
           THEN /\ pendingReads' = Append(pendingReads, Bytes(ingested, ingested + n))
                /\ UNCHANGED previousPart
           ELSE /\ previousPart' = TRUE
                /\ UNCHANGED pendingReads
        /\ ingested' = ingested + n
    /\ recState' = AfterData
    /\ UNCHANGED << isRecording, promise, pollLoopVars, allOk >>
    /\ pollUnused

\* onDataAvailable once the fragment has been read
onDataRead_poll ==
    /\ path = "poll"
    /\ pendingReads # << >>
    /\ pendingReads' = Tail(pendingReads)
    /\ buffer' = buffer \o Head(pendingReads)
    /\ previousPart' = TRUE
    /\ UNCHANGED << recState, isRecording, promise, startByte, lastSuccessfulUpload,
                    totalSize, pc, cur, puts, ingested, allOk >>
    /\ pollUnused

\* mediaRecorder.onstop, polling recorder
onstop_poll ==
    /\ path = "poll"
    /\ recState = "stopfired"
    /\ recState' = "stopped"
    /\ promise' = IF previousPart THEN promise ELSE NoData
    /\ isRecording' = FALSE
    /\ UNCHANGED << previousPart, pendingReads, pollLoopVars, ingested, allOk >>
    /\ pollUnused

pollStepUnchanged ==
    /\ UNCHANGED << recState, previousPart, pendingReads, ingested >>
    /\ pollUnused

\* the 1000 ms timer fires and the loop tests its conditions again
pollWake ==
    /\ path = "poll" /\ pc = "sleep"
    /\ PollLoop(buffer, startByte, lastSuccessfulUpload, isRecording)
    /\ UNCHANGED allOk
    /\ pollStepUnchanged

\* response.ok: uploadChunk awaits response.json()
pollRespOk ==
    /\ path = "poll" /\ pc = "fetch"
    /\ pc' = "json"
    /\ UNCHANGED << isRecording, promise, buffer, startByte, lastSuccessfulUpload,
                    totalSize, cur, puts, allOk >>
    /\ pollStepUnchanged

\* the body is read: status 200 with a response
pollJsonOk ==
    /\ path = "poll" /\ pc = "json"
    /\ PollLoop(SliceFrom(buffer, Len(cur.chunk)), cur.end + 1, TRUE, isRecording)
    /\ UNCHANGED allOk
    /\ pollStepUnchanged

\* status 308: { status: 308, response: null }
pollResp308 ==
    /\ path = "poll" /\ pc = "fetch"
    /\ PollLoop(SliceFrom(buffer, Len(cur.chunk)), cur.end + 1, lastSuccessfulUpload,
                isRecording)
    /\ allOk' = FALSE
    /\ pollStepUnchanged

\* uploadChunk throws (fetch rejects, another status, unreadable body): break
pollFails ==
    /\ path = "poll" /\ pc \in {"fetch", "json"}
    /\ PollFinish(lastSuccessfulUpload, isRecording)
    /\ allOk' = FALSE
    /\ UNCHANGED << buffer, startByte, lastSuccessfulUpload, totalSize, puts >>
    /\ pollStepUnchanged

NextPoll ==
    \/ start_poll \/ stop \/ onDataAvailable_poll \/ onDataRead_poll \/ onstop_poll
    \/ pollWake \/ pollRespOk \/ pollJsonOk \/ pollResp308 \/ pollFails

SpecPoll == InitFor({"poll"}) /\ [][NextPoll]_vars

\* ------------------------------------- non-buffered path: progressive uploader
\* onDataAvailable's normal branch swapping the two Blobs
HandOverNewest(prev, data) ==
    IF prev # << >>
    THEN [toUpload |-> << data >>, previousPart |-> prev]
    ELSE [toUpload |-> << >>, previousPart |-> << data >>]

\* onDataAvailable's normal branch: the Blob held so far is the one to upload, the new
\* one is held back
HandOver(prev, data) ==
    IF prev # << >>
    THEN [toUpload |-> prev, previousPart |-> << data >>]
    ELSE [toUpload |-> << >>, previousPart |-> << data >>]

\* a call of streamUpload.uploadPart or uploadLastPart that has not settled
Call(data, last, isLast) == [data |-> data, last |-> last, isLast |-> isLast, state |-> "pending"]

\* onDataAvailable with skipUploadToAPIVideo false, up to `await uploadPart(toUpload)`
onDataAvailable_stream ==
    /\ path = "stream"
    /\ \E n \in 0..MaxFragment :
        /\ Fragment(n)
        /\ LET data == Bytes(ingested, ingested + n)
               h == HandOver(previousData, data)
           IN  /\ fragments' = Append(fragments, data)
               /\ previousData' = h.previousPart
               /\ parts' = IF h.toUpload # << >>
                           THEN Append(parts, Call(h.toUpload[1], FALSE, recState = "stopping"))
                           ELSE parts
        /\ ingested' = ingested + n
    /\ previousPart' = TRUE
    /\ recState' = AfterData
    /\ UNCHANGED << promise, errors >>
    /\ UNCHANGED << configVars, pollVars, bufferVars, uploadQueue, isProcessingQueue, startByte,
                    pc, attempts, timer, cur, lastError, puts, workerVars, chunks, allOk,
                    bodyFailures, isRecording >>

\* mediaRecorder.onstop after the wait: uploadLastPart(previousPart), or no data
onstop_stream ==
    /\ path = "stream"
    /\ recState = "stopwait"
    /\ recState' = "stopped"
    /\ IF previousData # << >>
       THEN /\ parts' = Append(parts, Call(previousData[1], TRUE, TRUE))
            /\ UNCHANGED promise
       ELSE /\ promise' = NoData
            /\ UNCHANGED parts
    /\ UNCHANGED << previousPart, previousData, fragments, ingested, errors >>
    /\ UNCHANGED << configVars, pollVars, bufferVars, uploadQueue, isProcessingQueue, startByte,
                    pc, attempts, timer, cur, lastError, puts, workerVars, chunks, allOk,
                    bodyFailures, isRecording >>

\* a call of the progressive uploader resolves
partResolves ==
    /\ path = "stream"
    /\ \E i \in 1..Len(parts) :
        /\ parts[i].state = "pending"
        /\ parts' = [parts EXCEPT ![i].state = "ok"]
        /\ promise' = IF parts[i].last /\ promise = "pending" THEN "resolved" ELSE promise
    /\ UNCHANGED << recState, previousPart, previousData, fragments, ingested, uploaderVars >>
    /\ UNCHANGED << configVars, pollVars, bufferVars, workerVars, chunks, allOk, bodyFailures,
                    isRecording >>

\* a call rejects. uploadLastPart is awaited outside any try; uploadPart's rejection
\* lands in onDataAvailable's catch block, where mediaRecorder.stop() on an inactive
\* recorder throws in some browsers (threw) and returns in others.
partRejects ==
    /\ path = "stream"
    /\ \E i \in 1..Len(parts), threw \in BOOLEAN :
        /\ parts[i].state = "pending"
        /\ parts' = [parts EXCEPT ![i].state = "failed"]
        /\ LET stops == ~parts[i].last /\ ~parts[i].isLast
               reported == ~parts[i].last /\ ~(stops /\ recState # "recording" /\ threw)
           IN  /\ (recState = "recording" \/ ~stops) => ~threw
               /\ recState' = IF stops /\ recState = "recording" THEN "stopping" ELSE recState
               /\ errors' = IF reported
                            THEN Append(errors, [kind |-> "part", cause |-> "none"])
                            ELSE errors
               /\ promise' = IF reported /\ promise = "pending" THEN "rejected" ELSE promise
    /\ UNCHANGED << previousPart, previousData, fragments, ingested, uploadQueue,
                    isProcessingQueue, startByte, pc, attempts, timer, cur, lastError, puts >>
    /\ UNCHANGED << configVars, pollVars, bufferVars, workerVars, chunks, allOk, bodyFailures,
                    isRecording >>

NextStream ==
    \/ start \/ stop \/ onDataAvailable_stream \/ onstopBegin \/ onstop_stream
    \/ partResolves \/ partRejects

SpecStream == InitFor({"stream"}) /\ [][NextStream]_vars

Next ==
    \/ start \/ stop
    \/ onDataAvailable \/ onstopBegin \/ onstop
    \/ onDataAvailable_u8 \/ onDataRead_u8 \/ onstop_u8
    \/ onDataAvailable_ring \/ onDataRead_ring \/ onstop_ring
    \/ NextUploader
    \/ onDataAvailable_worker \/ onstop_worker \/ handleWorkerMessage
    \/ onmessage \/ workerRespOk \/ workerJsonOk \/ workerJsonFails \/ workerResp308
    \/ workerRespFails

Spec == InitFor({"blob", "u8", "ring", "worker"}) /\ [][Next]_vars

\* ================================================================ claims
RECURSIVE TotalLen(_)
TotalLen(cs) == IF cs = << >> THEN 0 ELSE Len(Head(cs).chunk) + TotalLen(Tail(cs))

RECURSIVE AllBytes(_)
AllBytes(cs) == IF cs = << >> THEN << >> ELSE Head(cs).chunk \o AllBytes(Tail(cs))

\* the bytes the worker has received in bufferChunk messages
RECURSIVE Pending(_)
Pending(ms) ==
    IF ms = << >> THEN 0
    ELSE (IF Head(ms).type = "bufferChunk" /\ Head(ms).instanceId = InstanceId
          THEN Len(Head(ms).chunk) ELSE 0) + Pending(Tail(ms))
Received == ingested - Pending(msgs)

\* C1. Blob-queue path: the chunks pushed to the upload queue, taken in order, are
\* exactly the stream bytes 0, 1, 2, ... (the k-th chunk is the range that starts where
\* the chunks before it end), no byte is both buffered and pushed, and once the stop
\* event has been handled their lengths sum to the number of bytes ingested.
C1_ByteConservation ==
    path = "blob" =>
        /\ AllBytes(chunks) = Bytes(0, TotalLen(chunks))
        /\ TotalLen(chunks) + blobBufferSize = ingested
        /\ recState = "stopped" => TotalLen(chunks) = ingested

C1_Witness ==
    /\ path = "blob"
    /\ recState = "stopped"
    /\ Len(chunks) >= 2
    /\ chunks[Len(chunks)].isFinal
    /\ ingested >= TARGET_CHUNK_SIZE + 1

\* C2. Queue-based paths: once the final chunk has been accepted (stop() resolved),
\* every byte of the stream has been carried by a PUT at the Content-Range position
\* equal to its stream offset, also after a 308 that accepted only part of a chunk.
C2_NoByteLost ==
    (path = "blob" /\ promise = "resolved") =>
        \A b \in 0..(ingested - 1) :
            \E i \in 1..Len(puts) :
                /\ puts[i].start <= b
                /\ b <= puts[i].end
                /\ b - puts[i].start + 1 <= Len(puts[i].chunk)
                /\ puts[i].chunk[b - puts[i].start + 1] = b

C4_WorkerRanges ==
    (path = "worker" /\ allOk) =>
        \A i \in 1..Len(puts) :
            /\ puts[i].start = TotalLen(SubSeq(puts, 1, i - 1))
            /\ puts[i].isFinal => puts[i].total = Received

\* C5. Queue-based paths: PUTs for distinct chunks are attempted with strictly
\* increasing start offsets.
C5_IncreasingStarts ==
    Queued =>
        \A i, j \in 1..Len(puts) :
            (i < j /\ puts[i].chunk # puts[j].chunk) => puts[i].start < puts[j].start

\* C6. Every buffered path: a chunk enqueued or sent with isFinal = false has a length
\* that is a positive multiple of the path's granularity, and at most 2 x MIN_CHUNK_SIZE
\* in the MIN_CHUNK_SIZE paths.
Aligned(len, granularity) == len > 0 /\ len % granularity = 0

C7_SingleFlight == path = "worker" => Len(fetches) <= 1

\* C8. Queue-based paths: startByte never decreases.
C8_StartByteMonotone == [][Queued => startByte' >= startByte]_vars

\* C9. Queue-based paths: a 308 with Range "<unit> 0-n" sets startByte to n + 1 and
\* the chunk is done (shifted from the queue, no further PUT for it); every new PUT
\* request starts at the current startByte, so the chunk after a resync starts at n + 1.
C9_Resync ==
    [][ /\ \A n \in 0..MaxRange :
            resp308With(TRUE, n) =>
                /\ startByte' = n + 1
                /\ uploadQueue' = Tail(uploadQueue)
                /\ uploadQueue' # << >> =>
                      /\ Len(puts') = Len(puts) + 1
                      /\ puts'[Len(puts')].start = n + 1
                      /\ puts'[Len(puts')].chunk = Head(uploadQueue').chunk
        /\ (Queued /\ Len(puts') > Len(puts)) => puts'[Len(puts')].start = startByte'
      ]_vars

\* a chunk was accepted in part (the server holds bytes up to the middle of it) and
\* the next chunk was sent from the resynced offset, not from the end of the chunk
C9_Witness ==
    /\ Queued
    /\ Len(puts) >= 2
    /\ puts[1].start = 0
    /\ puts[2].chunk # puts[1].chunk
    /\ puts[2].start > 0
    /\ puts[2].start <= puts[1].end
    /\ puts[2].start = startByte

\* C10. Queue-based paths: after a response whose status is neither 2xx nor 308,
\* uploadChunk neither waits to retry nor sends the chunk again.
C10_RejectedNotRetried == Queued => ~(lastError = "status" /\ pc \in {"backoff", "fetch"})

\* a step in which uploadChunk gives up and processUploadQueue's catch records the error
Exhausted ==
    /\ Queued
    /\ Len(errors') = Len(errors) + 1
    /\ errors'[Len(errors')].kind = "retries"

\* C11 as stated. An uploadChunk call whose attempts all fail gives up at its
\* maxRetries-th PUT attempt (attempts counts the failed PUTs before the one in flight).
C11_ExactlyMaxAttempts == [][Exhausted => attempts + 1 = maxRetries]_vars

\* C11, amended. uploadChunk gives up only when PUT attempt number maxRetries + 1 has
\* failed (the first attempt and maxRetries retries), never sends more than that, and
\* the error it raises names the failure of that last attempt; with transport failures
\* throughout, the cause is the transport failure.
C11_OnePastMaxRetries ==
    [][ /\ Exhausted =>
            /\ attempts + 1 = maxRetries + 1
            /\ pc \in {"fetch", "json"}
            /\ fetchFails => errors'[Len(errors')].cause = "transport"
            /\ respRejected => errors'[Len(errors')].cause = "status"
        /\ (Queued /\ pc' = "fetch") => attempts' + 1 <= maxRetries + 1
        /\ (Queued /\ (fetchFails \/ respRejected) /\ attempts < maxRetries) =>
              Len(errors') = Len(errors)
      ]_vars

C11_Witness ==
    /\ Queued
    /\ \E i \in 1..Len(errors) : errors[i] = [kind |-> "retries", cause |-> "transport"]
    /\ uploadQueue # << >>

\* C12. The wait after the k-th failed attempt of an uploadChunk call is
\* backoffFactor x 2^(k-1): the first is backoffFactor, each later one doubles the one
\* before, and the failure that exhausts the attempts starts no wait.
C12_Backoff ==
    [][ Queued =>
          /\ (pc' = "backoff" /\ pc # "backoff") =>
                /\ attempts' = attempts + 1
                /\ timer' = (IF attempts = 0 THEN backoffFactor ELSE 2 * timer)
                /\ attempts' = 3 => timer' = 2000
          /\ Exhausted => (pc' = "idle" /\ timer' = 0)
      ]_vars

C12_Witness ==
    /\ Queued
    /\ pc = "backoff"
    /\ attempts = 3
    /\ timer = 4 * backoffFactor

\* C13. Queue-based paths: once uploadChunk has failed terminally for a chunk, no
\* further PUT is issued, whatever dataavailable or stop events follow.
Failed == \E i \in 1..Len(errors) : errors[i].kind = "retries"

C13_FailurePermanent ==
    [][(Queued /\ Failed) => (Len(puts') = Len(puts) /\ pc' # "fetch")]_vars

\* C14. Queue-based paths: the 'error' notification for a terminal upload failure is
\* dispatched at most once in a session.
C14_ErrorOnce ==
    Queued => Cardinality({i \in 1..Len(errors) : errors[i].kind = "retries"}) <= 1

\* The blob-queue recorder with every queued event handler run and every PUT answered.
FairBlob ==
    /\ InitFor({"blob"})
    /\ [][NextBlob]_vars
    /\ WF_vars(onDataAvailable)
    /\ WF_vars(onstopBegin)
    /\ WF_vars(onstop)
    /\ WF_vars(NextUploader)

\* C15. Blob-queue path with an upload URL: the promise returned by stop() on a
\* recording recorder is eventually resolved or rejected.
C15_StopSettles ==
    (path = "blob" /\ url = "set" /\ promise = "pending")
        ~> (promise \in {"resolved", "rejected"})

\* C16. Buffered queue paths: when at least one byte was ingested, handling the stop
\* event leaves exactly one chunk with isFinal = true among the chunks enqueued, and
\* it is the last one.
C16_OneFinalChunk ==
    (Queued /\ recState = "stopped" /\ ingested >= 1) =>
        /\ chunks # << >>
        /\ chunks[Len(chunks)].isFinal
        /\ \A i \in 1..(Len(chunks) - 1) : ~chunks[i].isFinal

\* C17. Buffered queue paths: stop reports 'No data available to upload' (the only
\* rejection of stop()'s promise in these paths) exactly when no byte was ingested.
C17_NoDataIffEmpty ==
    (Queued /\ recState = "stopped") => (promise = "rejected" <=> ingested = 0)

\* C18. A recorder in skipUploadToAPIVideo mode whose buffer holds less than
\* targetChunkSize turns the last fragment (the one delivered after stop()) and the
\* buffered bytes into one final chunk: ingesting the last fragment enqueues no
\* non-final chunk. (In the claim's figures: 37856 + 37856 buffered bytes and the
\* 500000-byte last fragment give one final chunk of 575712 bytes.)
C18_LastFragmentOneChunk ==
    [][(path = "blob" /\ recState = "stopping" /\ recState' = "stopfired") =>
          \A i \in (Len(chunks) + 1)..Len(chunks') : chunks'[i].isFinal]_vars

\* C19. Worker path: every non-final chunk the worker uploads has a length that is a
\* multiple of the targetChunkSize the recorder was configured with.
C19_WorkerUsesTarget ==
    path = "worker" =>
        \A i \in 1..Len(puts) :
            ~puts[i].isFinal => Len(puts[i].chunk) % targetChunkSize = 0

\* C20. Worker path: an uploadError message is posted only after a PUT has been sent
\* again.
C20_WorkerRetries ==
    [][(path = "worker" /\ Len(outbox') = Len(outbox) + 1
            /\ outbox'[Len(outbox')].type = "uploadError") =>
          \E i \in 1..Len(puts) : puts[i].resent]_vars

\* C21. Worker-offloaded recorder: when the recorder handles an uploadError message
\* while the promise returned by stop() is pending, the promise is rejected.
C21_UploadErrorRejects ==
    [][(path = "worker" /\ outbox # << >> /\ outbox' = Tail(outbox)
            /\ Head(outbox).type = "uploadError" /\ promise = "pending") =>
          promise' = "rejected"]_vars

\* C22. Worker: instances are isolated. A step that handles a message of instance a,
\* or that starts or completes a PUT of instance a, leaves the entry of every other
\* instance b in instanceBuffers (blobBuffer, blobBufferSize, startByte) and the PUTs
\* of b as they were: what an instance buffers and sends depends on its own messages
\* and responses only.
Instances == {InstanceId, OtherId}
BufferOf(buffers, instanceId) ==
    IF instanceId \in DOMAIN buffers THEN << buffers[instanceId] >> ELSE << >>
FetchesOf(fs, instanceId) == SelectSeq(fs, LAMBDA f : f.instanceId = instanceId)
Untouched(b) ==
    /\ BufferOf(instanceBuffers', b) = BufferOf(instanceBuffers, b)
    /\ FetchesOf(fetches', b) = FetchesOf(fetches, b)

C22_Isolation ==
    [][path = "worker" =>
          \A a \in Instances : \A b \in Instances \ {a} :
              /\ (msgs # << >> /\ msgs' = Tail(msgs) /\ Head(msgs).instanceId = a) =>
                    Untouched(b)
              /\ FetchesOf(fetches', a) # FetchesOf(fetches, a) => Untouched(b)
              /\ BufferOf(instanceBuffers', a) # BufferOf(instanceBuffers, a) =>
                    Untouched(b)
      ]_vars

\* both instances have a buffer in the worker and a PUT in flight
C22_Witness ==
    /\ path = "worker"
    /\ Instances \subseteq DOMAIN instanceBuffers
    /\ FetchesOf(fetches, InstanceId) # << >>
    /\ FetchesOf(fetches, OtherId) # << >>
    /\ instanceBuffers[InstanceId].startByte # instanceBuffers[OtherId].startByte

\* C23. Queue-based paths: the upload queue loses a chunk only at its head and only
\* in the step in which that chunk's uploadChunk call returns (2xx, 2xx with its body
\* read for the final chunk, or 308); every other step only appends. When uploadChunk
\* fails terminally the drain stops with the queue as it was, the failed chunk at its
\* head. The queue is always the tail end, in order, of the chunks enqueued.
IsPrefix(s, t) == Len(s) <= Len(t) /\ SubSeq(t, 1, Len(s)) = s

C23_RemovedAfterSuccess ==
    [][Queued =>
          /\ \/ IsPrefix(uploadQueue, uploadQueue')
             \/ /\ uploadQueue # << >>
                /\ uploadQueue' = Tail(uploadQueue)
                /\ Head(uploadQueue).chunk = cur.chunk
                /\ respOk \/ jsonOk \/ resp308
          /\ Exhausted =>
                /\ uploadQueue' = uploadQueue
                /\ Head(uploadQueue').chunk = cur.chunk
                /\ ~isProcessingQueue'
                /\ pc' = "idle"
          /\ Len(uploadQueue') <= Len(chunks')
          /\ uploadQueue' = SubSeq(chunks', Len(chunks') - Len(uploadQueue') + 1,
                                   Len(chunks'))
      ]_vars

\* a drain has failed and left the failed chunk and another one queued
C23_Witness ==
    /\ Queued
    /\ Failed
    /\ pc = "idle"
    /\ Len(uploadQueue) >= 2
    /\ puts # << >>
    /\ uploadQueue[1].chunk = puts[Len(puts)].chunk

\* C24. Queue-based paths: a drain is running exactly while isProcessingQueue is set,
\* and a dataavailable or stop event handled while it runs starts no second loop: the
\* PUT in flight, its attempt counter and the PUT log are unchanged, so at most one PUT
\* is in flight.
Event ==
    \/ ingested' # ingested
    \/ recState' # recState
    \/ pendingReads' # pendingReads

C24_SingleDrain ==
    [][Queued =>
          /\ isProcessingQueue' <=> pc' \in {"fetch", "json", "backoff"}
          /\ (Event /\ isProcessingQueue) =>
                /\ pc' = pc
                /\ cur' = cur
                /\ attempts' = attempts
                /\ puts' = puts
                /\ isProcessingQueue'
      ]_vars

\* a chunk was enqueued while the drain was busy with an earlier one
C24_Witness ==
    /\ Queued
    /\ isProcessingQueue
    /\ pc = "fetch"
    /\ Len(uploadQueue) >= 2
    /\ cur.chunk = uploadQueue[1].chunk

\* C25. Blob-queue path: a fragment that arrives while a PUT, a body read or a backoff
\* wait is pending is handled at once: its bytes are buffered, every aligned chunk is
\* pushed to the upload queue in that same step, and the pending PUT or wait is left
\* as it is. The event handler is enabled in every such state of a recording recorder.
C25_IngestionNotBlocked ==
    [][(path = "blob" /\ pc' # "idle") =>
          /\ (recState' = "recording" /\ ingested' + otherPosted' < MaxBytes) =>
                ENABLED onDataAvailable
          /\ (pc # "idle" /\ ingested' > ingested) =>
                /\ pc' = pc /\ cur' = cur /\ attempts' = attempts
                /\ blobBufferSize' < targetChunkSize
                /\ TotalLen(chunks') + blobBufferSize' = ingested'
                /\ IsPrefix(uploadQueue, uploadQueue')
                /\ IsPrefix(chunks, chunks')
                /\ SubSeq(uploadQueue', Len(uploadQueue) + 1, Len(uploadQueue'))
                      = SubSeq(chunks', Len(chunks) + 1, Len(chunks'))
      ]_vars

\* a chunk was pushed behind the one whose retry is waiting
C25_Witness ==
    /\ path = "blob"
    /\ pc = "backoff"
    /\ attempts >= 1
    /\ Len(uploadQueue) >= 2
    /\ cur.chunk = uploadQueue[1].chunk

\* C26. Within one uploadChunk call a retry sends the request of the first attempt
\* again (same Content-Range, same body, hence same Content-Length), and every attempt
\* that fails, whatever made it fail, leaves startByte at the value the call started
\* with.
C26_RetrySameHeaders ==
    [][Queued =>
          /\ backoffDone =>
                /\ cur' = cur
                /\ Len(puts') = Len(puts)
                /\ puts'[Len(puts')] = [Request(cur) EXCEPT !.resent = TRUE]
          /\ (fetchFails \/ respRejected \/ jsonFails) => startByte' = cur.start
      ]_vars

\* C27. Blob-queue path: the promise of stop() is resolved only by the step that reads
\* the body of the final chunk's 2xx response, and at that point the final chunk is
\* the only chunk left in the queue: every chunk enqueued before it has been sent and
\* its uploadChunk call has returned.
C27_SuccessAfterDrain ==
    [][(path = "blob" /\ promise' = "resolved" /\ promise # "resolved") =>
          /\ jsonOk
          /\ pc = "json"
          /\ cur.isFinal
          /\ uploadQueue = << chunks[Len(chunks)] >>
          /\ cur.chunk = chunks[Len(chunks)].chunk
          /\ \A k \in 1..Len(chunks) :
                \E i \in 1..Len(puts) : puts[i].chunk = chunks[k].chunk
      ]_vars

C27_Witness ==
    /\ path = "blob"
    /\ promise = "resolved"
    /\ Len(chunks) >= 2
    /\ Len(puts) >= 2
    /\ ~allOk

\* C28. Blob-queue path: whenever onDataAvailable has returned, fewer than
\* TARGET_CHUNK_SIZE bytes are buffered, by the tracked size and by the blobs held,
\* whatever the size of the fragment.
C28_RemainderBelowTarget ==
    path = "blob" =>
        /\ blobBufferSize < targetChunkSize
        /\ SumSizes(blobBuffer) < targetChunkSize

\* a fragment larger than the target left target - 1 bytes behind
C28_Witness ==
    /\ path = "blob"
    /\ recState = "recording"
    /\ Len(chunks) >= 1
    /\ blobBufferSize = targetChunkSize - 1
    /\ ingested > targetChunkSize

\* the chunks added to a log by one step
Added(old, new) == SubSeq(new, Len(old) + 1, Len(new))

\* C29. Blob-queue path and worker path: the bytes taken out of the buffer in one step
\* never exceed what was buffered plus what the step put in, every chunk extracted by
\* onDataAvailable has the full size that was asked for, and the tracked size is
\* never negative.
C29_ExtractionInBounds ==
    [][/\ path = "blob" =>
            /\ blobBufferSize' >= 0
            /\ TotalLen(Added(chunks, chunks')) <= blobBufferSize + (ingested' - ingested)
            /\ \A i \in 1..Len(chunks') :
                  ~chunks'[i].isFinal => Len(chunks'[i].chunk) = targetChunkSize
       /\ path = "worker" =>
            /\ \A id \in DOMAIN instanceBuffers' :
                  /\ instanceBuffers'[id].blobBufferSize >= 0
                  /\ instanceBuffers'[id].blobBufferSize
                        = SumSizes(instanceBuffers'[id].blobBuffer)
            /\ (onmessage /\ Head(msgs).type = "bufferChunk"
                    /\ InstanceId \in DOMAIN instanceBuffers) =>
                  /\ TotalLen(Added(puts, puts'))
                        <= instanceBuffers[InstanceId].blobBufferSize + Len(Head(msgs).chunk)
                  /\ instanceBuffers'[InstanceId].blobBufferSize
                        = instanceBuffers[InstanceId].blobBufferSize
                          + Len(Head(msgs).chunk) - TotalLen(Added(puts, puts'))
      ]_vars

\* the worker extracted an aligned chunk and kept a remainder
C29_Witness ==
    /\ path = "worker"
    /\ InstanceId \in DOMAIN instanceBuffers
    /\ instanceBuffers[InstanceId].blobBufferSize > 0
    /\ puts # << >>

\* C30. Blob-queue path: blobBufferSize is the sum of the sizes of the blobs held, no
\* blob held is empty, and each extraction takes exactly TARGET_CHUNK_SIZE bytes from
\* the front of the buffered bytes, in order, lowering blobBufferSize by as much.
C30_ExtractExact ==
    [][path = "blob" =>
          /\ blobBufferSize' = SumSizes(blobBuffer')
          /\ \A i \in 1..Len(blobBuffer') : Len(blobBuffer'[i]) > 0
          /\ recState' \in {"recording", "stopping"} =>
                LET pushed == Added(chunks, chunks')
                    before == Concat(blobBuffer) \o Bytes(ingested, ingested')
                IN  /\ AllBytes(pushed) \o Concat(blobBuffer') = before
                    /\ \A i \in 1..Len(pushed) :
                          pushed[i].chunk
                             = SubSeq(before, (i - 1) * targetChunkSize + 1, i * targetChunkSize)
                    /\ blobBufferSize' = blobBufferSize + (ingested' - ingested)
                                            - Len(pushed) * targetChunkSize
      ]_vars

\* the boundary blob of a chunk was split and its rest is still buffered
C30_Witness ==
    /\ path = "blob"
    /\ Len(chunks) >= 1
    /\ Len(blobBuffer) = 1
    /\ blobBuffer[1] = Bytes(TotalLen(chunks), ingested)
    /\ ingested <= MaxFragment

\* C31. Ring-buffer path: when a fragment of n >= 1 bytes is appended, the append does
\* not fail, the byte count derived from readIndex and writeIndex afterwards is the
\* count before plus n, and the bytes held afterwards are the bytes held before
\* followed by the fragment.
C31_AppendAddsN ==
    [][(path = "ring" /\ pendingReads # << >> /\ pendingReads' = Tail(pendingReads)) =>
          LET newData == Head(pendingReads)
              used == UsedSize(readIndex, writeIndex, Len(allocatedBuffer))
              a == GrowAndAppend(allocatedBuffer, readIndex, writeIndex, newData)
          IN  /\ ~a.threw
              /\ UsedSize(a.readIndex, a.writeIndex, Len(a.allocatedBuffer))
                    = used + Len(newData)
              /\ ReadRing(a.allocatedBuffer, a.readIndex, used + Len(newData))
                    = ReadRing(allocatedBuffer, readIndex, used) \o newData
      ]_vars

\* the bytes held by the ring buffer, in order
Held(buf, r, w) == ReadRing(buf, r, UsedSize(r, w, Len(buf)))

\* C32. Ring-buffer path: an empty buffer of capacity C that receives one fragment of
\* C + 1 bytes grows to a capacity of at least 2C, and the chunks extracted from it,
\* followed by what it still holds for the final chunk, are exactly the C + 1 bytes of
\* the fragment, in order.
C32_Growth ==
    [][(/\ path = "ring"
        /\ pendingReads # << >> /\ pendingReads' = Tail(pendingReads)
        /\ UsedSize(readIndex, writeIndex, Len(allocatedBuffer)) = 0
        /\ Len(Head(pendingReads)) = Len(allocatedBuffer) + 1) =>
          /\ Len(allocatedBuffer') >= 2 * Len(allocatedBuffer)
          /\ AllBytes(Added(chunks, chunks')) \o Held(allocatedBuffer', readIndex', writeIndex')
                = Head(pendingReads)
          /\ UsedSize(readIndex', writeIndex', Len(allocatedBuffer')) < MIN_CHUNK_SIZE
          /\ ~GrowAndAppend(allocatedBuffer, readIndex, writeIndex, Head(pendingReads)).threw
      ]_vars

C32_Witness ==
    /\ path = "ring"
    /\ pendingReads = << >>
    /\ ingested = INITIAL_BUFFER_CAPACITY + 1
    /\ Len(allocatedBuffer) = 2 * INITIAL_BUFFER_CAPACITY
    /\ chunks # << >>
    /\ AllBytes(chunks) \o Held(allocatedBuffer, readIndex, writeIndex)
          = Bytes(0, INITIAL_BUFFER_CAPACITY + 1)

\* C33. Worker path: when the PUT of a non-final chunk has been answered 2xx, its
\* completion posts uploadSuccess, whatever the body is, and advances the cursor of its
\* instance by the chunk's length.
C33_BodyIgnored ==
    [][path = "worker" =>
          \A i \in 1..Len(fetches) :
             (/\ fetches[i].phase = "json"
              /\ ~fetches[i].req.isFinal
              /\ fetches' = RemoveAt(fetches, i)) =>
                /\ outbox' = Append(outbox, [type |-> "uploadSuccess", isFinal |-> FALSE,
                                             instanceId |-> fetches[i].instanceId])
                /\ instanceBuffers'[fetches[i].instanceId].startByte
                      = instanceBuffers[fetches[i].instanceId].startByte
                        + Len(fetches[i].req.chunk)
      ]_vars

\* C34. Worker: every PUT that completes, whatever its outcome, posts exactly one
\* message, uploadSuccess or uploadError, for the instance that issued it.
C34_OneMessagePerPut ==
    [][path = "worker" =>
          \A i \in 1..Len(fetches) :
             fetches' = RemoveAt(fetches, i) =>
                /\ Len(outbox') = Len(outbox) + 1
                /\ SubSeq(outbox', 1, Len(outbox)) = outbox
                /\ outbox'[Len(outbox')].type \in {"uploadSuccess", "uploadError"}
                /\ outbox'[Len(outbox')].instanceId = fetches[i].instanceId
      ]_vars

\* processUploadQueue gave up: uploadChunk threw
DrainFailed == \E i \in 1..Len(errors) : errors[i].kind \in {"retries", "nourl"}

\* C35. Queue-based paths: whenever the upload queue is non-empty and no drain has
\* failed, a drain loop is active with a PUT, a body read or a backoff pending; and
\* from every such state the queue becomes empty, unless a drain fails.
C35_NoLostWakeup ==
    /\ []((Queued /\ uploadQueue # << >> /\ ~DrainFailed) =>
             (isProcessingQueue /\ pc \in {"fetch", "json", "backoff"}))
    /\ (Queued /\ uploadQueue # << >> /\ ~DrainFailed)
          ~> (uploadQueue = << >> \/ DrainFailed)

\* the drain went on to a chunk that was pushed while it was running
C35_Witness ==
    /\ Queued
    /\ ~DrainFailed
    /\ isProcessingQueue
    /\ Len(puts) >= 2
    /\ uploadQueue # << >>
    /\ cur.chunk = Head(uploadQueue).chunk
    /\ cur.chunk = chunks[2].chunk
    /\ puts[1].chunk = chunks[1].chunk

\* C36. Queue-based paths: a chunk whose PUT was answered 2xx is not sent again, also
\* when reading the body of that response failed, and a 2xx leaves startByte at the
\* chunk's start plus its length: the chunk's length is added at most once.
C36_AcceptedNotResent ==
    [][Queued =>
          /\ backoffDone => lastError # "body"
          /\ respOk => startByte' = cur.start + Len(cur.chunk)
      ]_vars

\* C37. Uint8Array-queue and ring-buffer paths: no chunk is enqueued after the final
\* chunk, and once the recorder has stopped and every arrayBuffer() read has come back,
\* the chunks enqueued hold every byte of every fragment delivered, in order.
C37_ReadRace ==
    path \in {"u8", "ring"} =>
        /\ \A i \in 1..(Len(chunks) - 1) : ~chunks[i].isFinal
        /\ (recState = "stopped" /\ pendingReads = << >>) =>
              AllBytes(chunks) = Bytes(0, ingested)

\* C38. Polling path: once a recorder that was given data has stopped, every read has
\* come back and handleUploads has returned, with every PUT answered 2xx, exactly one
\* PUT carries a numeric total, it is the last PUT issued, and its total is the number
\* of bytes ingested.
C38_PollFinalTotal ==
    (/\ path = "poll" /\ url = "set" /\ allOk /\ ingested > 0
     /\ recState = "stopped" /\ pendingReads = << >> /\ pc = "done") =>
        /\ puts # << >>
        /\ puts[Len(puts)].total = ingested
        /\ \A i \in 1..(Len(puts) - 1) : puts[i].total = Star

\* the Blobs handed to the progressive uploader so far, in the order of the calls
Handed == [i \in 1..Len(parts) |-> parts[i].data]

\* C39. Non-buffered path: the Blobs handed to the progressive uploader are the
\* fragments delivered, each once and in delivery order, the newest one being held
\* back until the stop event; every call but the one made by onstop is uploadPart, and
\* onstop hands the last fragment through uploadLastPart.
C39_HandedInOrder ==
    path = "stream" =>
        /\ Len(previousData) <= 1
        /\ IF recState = "stopped"
           THEN /\ Handed = fragments
                /\ \A i \in 1..Len(parts) : parts[i].last <=> i = Len(parts)
           ELSE /\ Handed \o previousData = fragments
                /\ \A i \in 1..Len(parts) : ~parts[i].last

\* three fragments went through uploadPart, uploadPart and uploadLastPart
C39_Witness ==
    /\ path = "stream"
    /\ recState = "stopped"
    /\ Len(parts) >= 3
    /\ parts[Len(parts)].last
    /\ Handed = fragments
====
